---- MODULE Spec2Model ----
(***************************************************************************)
(* Book enrichment pipeline of the Library site: the three orchestrators   *)
(* (enrichBook of app.js, its earlier draft, and enrichOne of the build    *)
(* script), their provider adapters, the genre classifiers, the            *)
(* localStorage cache and the sequential main loop.                        *)
(*                                                                         *)
(* Text is modelled as a sequence of one-character strings (URLs as a      *)
(* sequence of coarser tokens); the empty sequence is the empty string.    *)
(***************************************************************************)
EXTENDS Integers, Sequences, FiniteSets, TLC

\* ------------------------------------------------------------ bounds
\* longest input list handed to main
MaxBooks == 2
\* page loads of the browser app against the same localStorage
MaxLoads == 2
\* longest input list of a page that is loaded more than once
MaxRevisitBooks == 1

\* responses scripted for the requests of one url
FetchScriptLen == 5

\* subject tags in one call of the genre classifier
MaxSubjects == 2

\* ------------------------------------------------------------ text helpers
\* JavaScript truthiness of a string
Truthy(s) == Len(s) > 0

UpperChars == <<"A","B","C","D","E","F","G","H","I","J","K","L","M",
                "N","O","P","Q","R","S","T","U","V","W","X","Y","Z">>
LowerChars == <<"a","b","c","d","e","f","g","h","i","j","k","l","m",
                "n","o","p","q","r","s","t","u","v","w","x","y","z">>

toLowerChar(c) ==
  IF \E i \in 1..26 : UpperChars[i] = c
    THEN LowerChars[CHOOSE i \in 1..26 : UpperChars[i] = c]
    ELSE c

toUpperChar(c) ==
  IF \E i \in 1..26 : LowerChars[i] = c
    THEN UpperChars[CHOOSE i \in 1..26 : LowerChars[i] = c]
    ELSE c

toLowerCase(s) == [i \in 1..Len(s) |-> toLowerChar(s[i])]

toUpperCase(s) == [i \in 1..Len(s) |-> toUpperChar(s[i])]

RECURSIVE trimStart(_)
trimStart(s) ==
  IF s # <<>> /\ Head(s) = " " THEN trimStart(Tail(s)) ELSE s

RECURSIVE trimEnd(_)
trimEnd(s) ==
  IF s # <<>> /\ s[Len(s)] = " " THEN trimEnd(SubSeq(s, 1, Len(s) - 1)) ELSE s

trim(s) == trimEnd(trimStart(s))

\* norm(s): (s ?? "").toString().trim()
norm(s) == trim(s)

IsbnChars == {"0","1","2","3","4","5","6","7","8","9","X","x"}

IsIsbnChar(c) == c \in IsbnChars

\* cleanIsbn(isbn): norm(isbn).replace(/[^0-9Xx]/g, "").toUpperCase()
cleanIsbn(isbn) == toUpperCase(SelectSeq(norm(isbn), IsIsbnChar))

\* v.includes(k)
includes(v, k) ==
  \E i \in 1..(Len(v) - Len(k) + 1) : SubSeq(v, i, i + Len(k) - 1) = k

\* s.replace(a, b) for a one-token pattern a: the first occurrence only
replaceFirst(s, a, b) ==
  IF \E i \in 1..Len(s) : s[i] = a
    THEN LET p == CHOOSE i \in 1..Len(s) : s[i] = a /\ \A j \in 1..(i - 1) : s[j] # a
         IN  SubSeq(s, 1, p - 1) \o b \o SubSeq(s, p + 1, Len(s))
    ELSE s

\* pickFirstNonEmpty(...vals): the first v with v && String(v).trim(), else ""
RECURSIVE pickFirstNonEmpty(_)
pickFirstNonEmpty(vals) ==
  IF vals = <<>> THEN <<>>
  ELSE IF Truthy(Head(vals)) /\ Truthy(trim(Head(vals))) THEN Head(vals)
  ELSE pickFirstNonEmpty(Tail(vals))

\* removes every <...> tag; inTag tells whether the scan is inside a tag.
\* sep is what a tag leaves behind: nothing in the DOM version (textContent),
\* one blank in the build script's regex version.
RECURSIVE dropTags(_, _, _)
dropTags(s, inTag, sep) ==
  IF s = <<>> THEN <<>>
  ELSE IF inTag
    THEN IF Head(s) = ">" THEN sep \o dropTags(Tail(s), FALSE, sep)
         ELSE dropTags(Tail(s), TRUE, sep)
  ELSE IF Head(s) = "<" /\ (\E i \in 2..Len(s) : s[i] = ">")
    THEN dropTags(Tail(s), TRUE, sep)
  ELSE <<Head(s)>> \o dropTags(Tail(s), FALSE, sep)

\* .replace(/\s+/g, " "): runs of blanks collapse to one blank
RECURSIVE collapseSpaces(_)
collapseSpaces(s) ==
  IF Len(s) < 2 THEN s
  ELSE IF s[1] = " " /\ s[2] = " " THEN collapseSpaces(Tail(s))
  ELSE <<Head(s)>> \o collapseSpaces(Tail(s))

\* app.js stripHtml: the textContent of a div holding the html
stripHtmlDom(html) == dropTags(html, FALSE, <<>>)

\* build script stripHtml: tags to blanks, blanks collapsed, trimmed
stripHtmlRegex(html) == trim(collapseSpaces(dropTags(html, FALSE, <<" ">>)))

\* ------------------------------------------------------------ genre classifier
Unknown == <<"U","n","k","n","o","w","n">>

\* the one-character ellipsis U+2026 appended to a truncated category
Ellipsis == <<"...">>

rules ==
  << << <<"M","y","s","t","e","r","y"," ","/"," ","T","h","r","i","l","l","e","r">>,
        << <<"m","y","s","t","e","r","y">>,
           <<"d","e","t","e","c","t","i","v","e">>,
           <<"c","r","i","m","e">>,
           <<"t","h","r","i","l","l","e","r">>,
           <<"s","u","s","p","e","n","s","e">> >> >>,
     << <<"S","c","i","e","n","c","e"," ","F","i","c","t","i","o","n">>,
        << <<"s","c","i","e","n","c","e"," ","f","i","c","t","i","o","n">>,
           <<"s","c","i","-","f","i">>,
           <<"s","p","a","c","e">>,
           <<"d","y","s","t","o","p","i","a">> >> >>,
     << <<"F","a","n","t","a","s","y">>,
        << <<"f","a","n","t","a","s","y">>,
           <<"m","a","g","i","c">>,
           <<"d","r","a","g","o","n","s">> >> >>,
     << <<"R","o","m","a","n","c","e">>,
        << <<"r","o","m","a","n","c","e">>,
           <<"l","o","v","e"," ","s","t","o","r","i","e","s">> >> >>,
     << <<"B","i","o","g","r","a","p","h","y">>,
        << <<"b","i","o","g","r","a","p","h","y">>,
           <<"a","u","t","o","b","i","o","g","r","a","p","h","y">>,
           <<"m","e","m","o","i","r","s">> >> >>,
     << <<"H","i","s","t","o","r","y">>,
        << <<"h","i","s","t","o","r","y">>,
           <<"h","i","s","t","o","r","i","c","a","l">> >> >>,
     << <<"R","e","l","i","g","i","o","n">>,
        << <<"c","h","r","i","s","t","i","a","n">>,
           <<"r","e","l","i","g","i","o","n">>,
           <<"b","i","b","l","e">>,
           <<"c","a","t","h","o","l","i","c">> >> >>,
     << <<"K","i","d","s"," ","/"," ","Y","A">>,
        << <<"j","u","v","e","n","i","l","e">>,
           <<"c","h","i","l","d","r","e","n">>,
           <<"y","o","u","n","g"," ","a","d","u","l","t">> >> >>,
     << <<"S","e","l","f","-","H","e","l","p">>,
        << <<"s","e","l","f","-","h","e","l","p">>,
           <<"p","e","r","s","o","n","a","l"," ","d","e","v","e","l","o","p","m","e","n","t">> >> >>,
     << <<"B","u","s","i","n","e","s","s">>,
        << <<"b","u","s","i","n","e","s","s">>,
           <<"e","c","o","n","o","m","i","c","s">>,
           <<"f","i","n","a","n","c","e">> >> >>,
     << <<"N","o","n","f","i","c","t","i","o","n">>,
        << <<"n","o","n","f","i","c","t","i","o","n">>,
           <<"n","o","n","-","f","i","c","t","i","o","n">> >> >>,
     << <<"F","i","c","t","i","o","n">>,
        << <<"f","i","c","t","i","o","n">>,
           <<"n","o","v","e","l">> >> >> >>

ruleMatches(r, s) ==
  \E k \in 1..Len(rules[r][2]) : \E v \in 1..Len(s) : includes(s[v], rules[r][2][k])

\* a classifier that goes through the subjects first: the first subject that
\* matches any rule decides, by the first rule it matches
bestGenreFromSubjectsByTag(subjects) ==
  LET s == [i \in 1..Len(subjects) |-> toLowerCase(subjects[i])]
      rulesOfTag(v) ==
        {r \in 1..Len(rules) : \E k \in 1..Len(rules[r][2]) : includes(v, rules[r][2][k])}
      matching == {v \in 1..Len(s) : rulesOfTag(s[v]) # {}}
  IN  IF matching = {} THEN Unknown
      ELSE LET v == CHOOSE a \in matching : \A b \in matching : a <= b
               r == CHOOSE a \in rulesOfTag(s[v]) : \A b \in rulesOfTag(s[v]) : a <= b
           IN  rules[r][1]

\* bestGenreFromSubjects: the first rule with a keyword contained in some
\* lowercased subject
bestGenreFromSubjects(subjects) ==
  LET s == [i \in 1..Len(subjects) |-> toLowerCase(subjects[i])]
  IN  IF \E r \in 1..Len(rules) : ruleMatches(r, s)
        THEN rules[CHOOSE r \in 1..Len(rules) :
                     ruleMatches(r, s) /\ \A q \in 1..(r - 1) : ~ruleMatches(q, s)][1]
        ELSE Unknown

\* display lengths of bestGenreFromCategories; 0 stands for "no truncation"
CategoryLimitApp == 50
CategoryLimitDraft == 40
CategoryLimitBuild == 0

\* a bestGenreFromCategories without the check for a blank first category
bestGenreFromCategoriesUnchecked(categories, limit) ==
  IF Len(categories) = 0 THEN Unknown
  ELSE LET c == trim(categories[1])
       IN  IF limit > 0 /\ Len(c) > limit THEN SubSeq(c, 1, limit) \o Ellipsis
           ELSE c

\* bestGenreFromCategories: first category, trimmed; blank is "Unknown"
bestGenreFromCategories(categories, limit) ==
  IF Len(categories) = 0 THEN Unknown
  ELSE LET c == trim(categories[1])
       IN  IF ~Truthy(c) THEN Unknown
           ELSE IF limit > 0 /\ Len(c) > limit THEN SubSeq(c, 1, limit) \o Ellipsis
           ELSE c

\* ------------------------------------------------------------ provider responses
\* What one fetch(url) can do: the promise rejects (network error), or it
\* resolves to a response with a status whose body parses as JSON or does not.
Reject == [kind |-> "reject"]

BadBody == [parse |-> FALSE]

JsonBody(v) == [parse |-> TRUE, value |-> v]

Response(status, body) == [kind |-> "response", status |-> status, body |-> body]

\* r.ok
ok(r) == r.status >= 200 /\ r.status <= 299

\* non-2xx responses the providers send (not found, rate limited, unavailable)
FailStatuses == {404, 429, 503}

JsonNull == [t |-> "null"]

Undefined == [t |-> "undefined"]

JsString(s) == [t |-> "string", v |-> s]

JsObject(v) == [t |-> "object", value |-> v]

\* what an adapter hands back to the orchestrator: an exception thrown out of
\* the awaited call, null, or a partial record
Throw == [kind |-> "throw"]

Null == [kind |-> "null"]

\* texts the providers answer with
DescOL == <<"<","b",">","A","<","/","b",">">>
DescTagOnly == <<"<","i",">">>
DescGB == <<"G"," ","<","b","r",">">>
SubjFantasy == << <<"N","o","v","e","l">>, <<"M","a","g","i","c">> >>
SubjNoRule == << <<"C","o","o","k","i","n","g">> >>
CatHistory == << <<" ","H","i","s","t","o","r","y">>, <<"F","i","c","t","i","o","n">> >>
CatBlank == << <<" ">> >>

\* bodies of https://openlibrary.org/isbn/<isbn>.json
Editions ==
  {JsonNull} \cup
  [t : {"object"},
   covers : {<<>>, <<"12">>},
   description : {Undefined, JsString(DescOL), JsObject(DescOL), JsObject(<<>>)},
   subjects : {<<>>, SubjFantasy},
   works : {<<>>, << [key |-> <<"/works/OL1W">>] >>}]

\* bodies of https://openlibrary.org<workKey>.json
Works ==
  {JsonNull} \cup
  [t : {"object"},
   description : {Undefined, JsString(DescOL), JsObject(DescTagOnly)},
   subjects : {<<>>, SubjFantasy}]

\* bodies of https://openlibrary.org/search.json?...&limit=1
SearchDocs ==
  [cover_i : {<<>>, <<"12">>},
   subject : {<<>>, SubjNoRule, SubjFantasy},
   isbn : {<<>>, << <<"9","-","x">> >>}]

Searches ==
  {JsonNull} \cup [t : {"object"}, docs : {<<>>} \cup {<<d>> : d \in SearchDocs}]

\* bodies of https://www.googleapis.com/books/v1/volumes?q=...
ImageLinks ==
  { <<>>,
    << [thumbnail |-> <<"http://", "books.google.com/t">>, smallThumbnail |-> <<>>] >>,
    << [thumbnail |-> <<>>, smallThumbnail |-> <<"https://", "books.google.com/t">>] >> }

VolumeInfos ==
  [imageLinks : ImageLinks,
   description : {<<>>, DescGB},
   categories : {<<>>, CatBlank, CatHistory}]

Volumes ==
  {JsonNull} \cup
  [t : {"object"},
   items : {<<>>, << [volumeInfo |-> <<>>] >>}
           \cup {<< [volumeInfo |-> <<v>>] >> : v \in VolumeInfos}]

\* every outcome of one fetch whose 2xx bodies are drawn from bodies
Fetches(bodies) ==
  {Reject} \cup {Response(s, BadBody) : s \in FailStatuses}
           \cup {Response(200, BadBody)}
           \cup {Response(200, JsonBody(b)) : b \in bodies}

EditionFetches == Fetches(Editions)

WorkFetches == Fetches(Works)

SearchFetches == Fetches(Searches)

VolumeFetches == Fetches(Volumes)

\* ------------------------------------------------------------ state
VARIABLES
  variant,      \* which program runs: "app" (app.js), "draft" (its earlier copy), "build"
  apiKey,       \* GOOGLE_BOOKS_API_KEY
  BOOKS,        \* the list main iterates over
  ENRICHED,     \* the output list
  storage,      \* localStorage: stored key -> stored string
  blocked,      \* the browser denies access to localStorage (getItem and setItem throw)
  now,          \* the wall clock, in days
  loads,        \* page loads so far
  pc,           \* where main is: "loop", "step", "store", "sleep", "done", "aborted"
  i,            \* the loop index of main (1-based)
  step,         \* the next block of the cascade
  locals,       \* coverUrl, description, genre, source of the running enrichment
  calls,        \* history: the adapters the running enrichment has invoked, in order
  hit,          \* history: the running enrichment returned the cached value
  warm,         \* history: at its start a written entry was stored and readable
  lastWrite,    \* history: cache key -> the value and day of its last successful cacheSet
  filledBy,     \* history: the provider whose block filled each field of locals ("" if none)
  fScript,      \* fetch layer: the responses the server gives to successive requests of one url
  fAttempts,    \* fetch layer: requests issued for that url so far
  fResult,      \* fetch layer: what the fetch of that url returned
  fPc,          \* fetch layer: "idle", "fetching", "returned"
  cSubjects,    \* genre classifier: the subjects bestGenreFromSubjects is called with
  cGenre,       \* genre classifier: the label it returned
  cPc,          \* genre classifier: "idle", "returned"
  waited        \* history: the ms main has slept since the last enrichment began

vars == <<variant, apiKey, BOOKS, ENRICHED, storage, blocked, now, loads, pc, i, step,
          locals, calls, hit, warm, lastWrite, filledBy, fScript, fAttempts, fResult, fPc,
          cSubjects, cGenre, cPc, waited>>

\* the variables of the fetch layer
fetchVars == <<fScript, fAttempts, fResult, fPc>>

\* the variables of a call of the genre classifier
classifierVars == <<cSubjects, cGenre, cPc>>

\* the variables of main and the orchestrators
mainVars == <<variant, apiKey, BOOKS, ENRICHED, storage, blocked, now, loads, pc, i, step,
              locals, calls, hit, warm, lastWrite, filledBy, waited>>


\* ------------------------------------------------------------ adapters, app.js
\* GOOGLE_BOOKS_API_KEY as shipped, and after the site owner pasted a key
KeyPlaceholder == <<"PASTE_", "YOUR_KEY_HERE">>
KeyReal == <<"AIza-key">>
KeyEmpty == <<>>

OLCoverById(id) == <<"https://", "covers.openlibrary.org/b/id/", id, "-L.jpg">>

\* encodeURIComponent leaves the characters of a cleaned ISBN as they are
OLCoverByIsbn(isbn) == <<"https://", "covers.openlibrary.org/b/isbn/">> \o isbn \o <<"-L.jpg">>

\* the two `if (typeof d === ...)` assignments to description
pickDescription(cur, d) ==
  IF d.t = "string" THEN d.v
  ELSE IF d.t = "object" /\ Truthy(d.value) THEN d.value
  ELSE cur

OLValue(coverUrl, description, subjects) ==
  [kind |-> "value", coverUrl |-> coverUrl,
   description |-> IF Truthy(description) THEN stripHtmlDom(description) ELSE <<>>,
   subjects |-> subjects]

\* openLibraryByIsbn(isbn); r answers the edition request, wr the work request
openLibraryByIsbn(isbn, r, wr) ==
  IF r.kind = "reject" THEN Throw
  ELSE IF ~ok(r) THEN Null
  ELSE IF ~r.body.parse THEN Throw
  ELSE LET edition == r.body.value IN
    IF edition.t = "null" THEN Throw
    ELSE
      LET coverUrl == IF Len(edition.covers) > 0 THEN OLCoverById(edition.covers[1])
                      ELSE IF Truthy(isbn) THEN OLCoverByIsbn(isbn)
                      ELSE <<>>
          description == pickDescription(<<>>, edition.description)
          subjects == edition.subjects
      IN  IF ~Truthy(description) /\ Len(edition.works) > 0 /\ Truthy(edition.works[1].key)
            THEN IF wr.kind = "reject" THEN Throw
                 ELSE IF ~ok(wr) THEN OLValue(coverUrl, description, subjects)
                 ELSE IF ~wr.body.parse THEN Throw
                 ELSE LET work == wr.body.value IN
                   IF work.t = "null" THEN Throw
                   ELSE OLValue(coverUrl, pickDescription(description, work.description),
                                subjects \o work.subjects)
            ELSE OLValue(coverUrl, description, subjects)

\* openLibrarySearch(title, author)
openLibrarySearch(r) ==
  IF r.kind = "reject" THEN Throw
  ELSE IF ~ok(r) THEN Null
  ELSE IF ~r.body.parse THEN Throw
  ELSE LET data == r.body.value IN
    IF data.t = "null" \/ Len(data.docs) = 0 THEN Null
    ELSE LET doc == data.docs[1] IN
      [kind |-> "value",
       coverUrl |-> IF Len(doc.cover_i) > 0 THEN OLCoverById(doc.cover_i[1]) ELSE <<>>,
       description |-> <<>>,
       subjects |-> doc.subject,
       isbn |-> IF Len(doc.isbn) > 0 THEN cleanIsbn(doc.isbn[1]) ELSE <<>>]

\* the `if (...KEY...) return null` line opening both Google adapters:
\* app.js also refuses the placeholder, the draft only the empty key
keyMissing(key, draft) ==
  IF draft THEN ~Truthy(key)
  ELSE ~Truthy(key) \/ includes(key, <<"PASTE_">>)

\* info.imageLinks?.thumbnail || info.imageLinks?.smallThumbnail || ""
thumbnailOf(info) ==
  IF Len(info.imageLinks) = 0 THEN <<>>
  ELSE IF Truthy(info.imageLinks[1].thumbnail) THEN info.imageLinks[1].thumbnail
  ELSE info.imageLinks[1].smallThumbnail

secureUrl(coverUrl) ==
  IF Truthy(coverUrl) THEN replaceFirst(coverUrl, "http://", <<"https://">>) ELSE <<>>

\* googleBooksByIsbn(isbn) and googleBooksSearch(title, author): the two differ
\* in the url only
googleBooks(key, draft, r) ==
  IF keyMissing(key, draft) THEN Null
  ELSE IF r.kind = "reject" THEN Throw
  ELSE IF ~ok(r) THEN Null
  ELSE IF ~r.body.parse THEN Throw
  ELSE LET data == r.body.value IN
    IF data.t = "null" \/ Len(data.items) = 0 \/ Len(data.items[1].volumeInfo) = 0 THEN Null
    ELSE LET info == data.items[1].volumeInfo[1] IN
      [kind |-> "value",
       coverUrl |-> secureUrl(thumbnailOf(info)),
       description |-> IF Truthy(info.description) THEN stripHtmlDom(info.description) ELSE <<>>,
       categories |-> info.categories]

\* ------------------------------------------------------------ adapters, build script
\* fetchJson(url)
fetchJson(r) ==
  IF r.kind = "reject" THEN Throw
  ELSE IF ~ok(r) THEN Null
  ELSE IF ~r.body.parse THEN Throw
  ELSE IF r.body.value.t = "null" THEN Null
  ELSE [kind |-> "value", data |-> r.body.value]

\* googleByIsbn(isbn) and googleSearch(title, author)
buildGoogle(key, r) ==
  IF ~Truthy(key) THEN Null
  ELSE LET f == fetchJson(r) IN
    IF f = Throw THEN Throw
    ELSE IF f = Null \/ Len(f.data.items) = 0 \/ Len(f.data.items[1].volumeInfo) = 0 THEN Null
    ELSE LET item == f.data.items[1].volumeInfo[1] IN
      [kind |-> "value",
       coverUrl |-> secureUrl(thumbnailOf(item)),
       description |-> IF Truthy(item.description) THEN stripHtmlRegex(item.description) ELSE <<>>,
       genre |-> bestGenreFromCategories(item.categories, CategoryLimitBuild)]

\* openLibraryByIsbn(isbn) of the build script
buildOpenLibraryByIsbn(isbn, r, wr) ==
  LET e == fetchJson(r) IN
  IF e = Throw THEN Throw
  ELSE IF e = Null THEN Null
  ELSE
    LET edition == e.data
        coverUrl == IF Len(edition.covers) > 0 THEN OLCoverById(edition.covers[1])
                    ELSE OLCoverByIsbn(isbn)
        description == pickDescription(<<>>, edition.description)
        w == fetchJson(wr)
        fetchWork == ~Truthy(description) /\ Len(edition.works) > 0
                     /\ Truthy(edition.works[1].key)
        final == IF fetchWork /\ w # Null
                   THEN pickDescription(description, w.data.description)
                   ELSE description
    IN  IF fetchWork /\ w = Throw THEN Throw
        ELSE [kind |-> "value", coverUrl |-> coverUrl,
              description |-> IF Truthy(final) THEN stripHtmlRegex(final) ELSE <<>>,
              genre |-> Unknown]

\* ------------------------------------------------------------ input
\* rows of books.json (one spelling of each column header)
RowDune ==
  [Title |-> <<"D","u","n","e">>, Author |-> <<"H","e","r","b","e","r","t">>,
   ISBN |-> <<"9","7","-","8","x">>]
RowNoIsbn ==
  [Title |-> <<"D","u","n","e">>, Author |-> <<>>, ISBN |-> <<"-">>]
RowBlank ==
  [Title |-> <<" ">>, Author |-> <<>>, ISBN |-> <<>>]

\* the title of RowNoIsbn in another letter case and with a leading blank
RowDuneVariant ==
  [Title |-> <<" ","d","u","n","e">>, Author |-> <<>>, ISBN |-> <<>>]
\* another book entered with the ISBN of RowDune, written differently
RowEmma ==
  [Title |-> <<"E","m","m","a">>, Author |-> <<"A","u","s","t","e","n">>,
   ISBN |-> <<"9","7","8","X">>]

Rows == {RowDune, RowNoIsbn, RowBlank}

RowLists == UNION {[1..n -> Rows] : n \in 1..MaxBooks}

\* the record loadBooks makes of row idx (0-based) of books.json
loadedBook(row, idx) ==
  [_id |-> idx,
   title |-> pickFirstNonEmpty(<<row.Title>>),
   author |-> pickFirstNonEmpty(<<row.Author>>),
   isbn |-> cleanIsbn(pickFirstNonEmpty(<<row.ISBN>>)),
   coverUrl |-> <<>>, description |-> <<>>, genre |-> Unknown, source |-> <<>>]

keepBook(b) == Truthy(b.title) \/ Truthy(b.author) \/ Truthy(b.isbn)

\* loadBooks(): data.map(...).filter(b => b.title || b.author || b.isbn)
loadBooks(rows) ==
  SelectSeq([k \in 1..Len(rows) |-> loadedBook(rows[k], k - 1)], keepBook)

\* main() of the build script: raw.map(r => ({title, author, isbn}))
buildBooks(rows) ==
  [k \in 1..Len(rows) |->
     [title |-> rows[k].Title, author |-> rows[k].Author, isbn |-> rows[k].ISBN]]

\* lists of two rows whose second row is related to the first: the same book
\* again, the same title written differently, the same ISBN on another book
PairLists ==
  {<<a, b>> : a \in {RowDune, RowNoIsbn}, b \in {RowNoIsbn, RowDuneVariant, RowEmma}}

\* ------------------------------------------------------------ cache
CACHE_PREFIX(draft) == IF draft THEN <<"book_enrich_v1:">> ELSE <<"book_enrich_v2:">>

\* a cache key built from the lowercased, trimmed title and author
cacheKeyNormalized(book) ==
  IF Truthy(book.isbn) THEN <<"isbn:">> \o book.isbn
  ELSE <<"ta:">> \o toLowerCase(trim(book.title)) \o <<"|">>
                \o toLowerCase(trim(book.author))

\* const cacheKey = book.isbn ? `isbn:${book.isbn}` : `ta:${book.title}|${book.author}`
cacheKeyOf(book) ==
  IF Truthy(book.isbn) THEN <<"isbn:">> \o book.isbn
  ELSE <<"ta:">> \o book.title \o <<"|">> \o book.author

\* JSON.stringify of the {coverUrl, description, genre, source} object
stringify(v) == <<"{", v.coverUrl, v.description, v.genre, v.source, "}">>

IsJson(raw) == Len(raw) = 6 /\ raw[1] = "{" /\ raw[6] = "}"

\* JSON.parse of a stored string; only called on a string that IsJson
parse(raw) ==
  [coverUrl |-> raw[2], description |-> raw[3], genre |-> raw[4], source |-> raw[5]]

\* a cacheGet that never finds the entry
cacheGetMiss(store, prefix, key, readThrows) == <<>>

\* a cacheGet that drops an entry written more than 30 days ago
cacheGetExpiring(store, prefix, key, readThrows) ==
  IF readThrows THEN <<>>
  ELSE IF (prefix \o key) \notin DOMAIN store THEN <<>>
  ELSE IF key \in DOMAIN lastWrite /\ now - lastWrite[key].at > 30 THEN <<>>
  ELSE LET raw == store[prefix \o key] IN
    IF Truthy(raw) /\ IsJson(raw) THEN <<parse(raw)>> ELSE <<>>

\* a cacheGet that takes a stored string it cannot parse for an empty enrichment
cacheGetTrusting(store, prefix, key, readThrows) ==
  IF readThrows THEN <<>>
  ELSE IF (prefix \o key) \notin DOMAIN store THEN <<>>
  ELSE LET raw == store[prefix \o key] IN
    IF ~Truthy(raw) THEN <<>>
    ELSE IF IsJson(raw) THEN <<parse(raw)>>
    ELSE << [coverUrl |-> <<>>, description |-> <<>>, genre |-> Unknown, source |-> <<>>] >>

\* cacheGet(key): <<>> is null; readThrows: localStorage.getItem throws
cacheGet(store, prefix, key, readThrows) ==
  IF readThrows THEN <<>>
  ELSE IF (prefix \o key) \notin DOMAIN store THEN <<>>
  ELSE LET raw == store[prefix \o key] IN
    IF Truthy(raw) /\ IsJson(raw) THEN <<parse(raw)>> ELSE <<>>

\* cacheSet(key, value); writeThrows: localStorage.setItem throws (quota)
cacheSet(store, prefix, key, value, writeThrows) ==
  IF writeThrows THEN store
  ELSE [k \in DOMAIN store \cup {prefix \o key} |->
          IF k = prefix \o key THEN stringify(value) ELSE store[k]]

\* ------------------------------------------------------------ merge steps
\* !coverUrl || !description || genre === "Unknown"
anyUnfilled(l) == ~Truthy(l.coverUrl) \/ ~Truthy(l.description) \/ l.genre = Unknown

\* !coverUrl || !description
coverOrDescriptionUnfilled(l) == ~Truthy(l.coverUrl) \/ ~Truthy(l.description)

hasText(book) == Truthy(book.title) \/ Truthy(book.author)

SourceOL == <<"O","L">>
SourceGB == <<"G","B">>

\* let coverUrl = ""; let description = ""; let genre = "Unknown"; let source = ""
initialLocals == [coverUrl |-> <<>>, description |-> <<>>, genre |-> Unknown, source |-> <<>>]

\* body of `if (ol) {...}` of step 1
mergeOpenLibraryByIsbn(l, ol) ==
  [coverUrl |-> ol.coverUrl, description |-> ol.description,
   genre |-> bestGenreFromSubjects(ol.subjects), source |-> SourceOL]

\* body of `if (ols) {...}` of step 2
mergeOpenLibrarySearch(l, ols) ==
  [coverUrl |-> IF Truthy(l.coverUrl) THEN l.coverUrl ELSE ols.coverUrl,
   description |-> l.description,
   genre |-> IF l.genre = Unknown THEN bestGenreFromSubjects(ols.subjects) ELSE l.genre,
   source |-> IF Truthy(l.source) THEN l.source ELSE SourceOL]

\* a Google Books block that lets its own cover and description replace filled ones
mergeGoogleBooksOverwriting(l, gb, limit) ==
  [coverUrl |-> IF Truthy(gb.coverUrl) THEN gb.coverUrl ELSE l.coverUrl,
   description |-> IF Truthy(gb.description) THEN gb.description ELSE l.description,
   genre |-> IF l.genre = Unknown THEN bestGenreFromCategories(gb.categories, limit)
             ELSE l.genre,
   source |-> SourceGB]

\* a Google Books block that assigns its genre whatever genre is already held
mergeGoogleBooksRegenre(l, gb, limit) ==
  [coverUrl |-> IF Truthy(l.coverUrl) THEN l.coverUrl ELSE gb.coverUrl,
   description |-> IF Truthy(l.description) THEN l.description ELSE gb.description,
   genre |-> bestGenreFromCategories(gb.categories, limit),
   source |-> SourceGB]

\* body of `if (gb) {...}` of steps 3 and 4
mergeGoogleBooks(l, gb, limit) ==
  [coverUrl |-> IF Truthy(l.coverUrl) THEN l.coverUrl ELSE gb.coverUrl,
   description |-> IF Truthy(l.description) THEN l.description ELSE gb.description,
   genre |-> IF l.genre = Unknown THEN bestGenreFromCategories(gb.categories, limit)
             ELSE l.genre,
   source |-> SourceGB]

\* the order with both identifier lookups ahead of both searches
appCascadeIdentifiersFirst ==
  <<"openLibraryByIsbn", "googleBooksByIsbn", "openLibrarySearch", "googleBooksSearch">>

\* the order of the four `if` blocks of enrichBook
appCascade ==
  <<"openLibraryByIsbn", "openLibrarySearch", "googleBooksByIsbn", "googleBooksSearch">>

\* conditions whose Google Books lookup does not test the ISBN
appGuardLookupAlways(name, draft, l, book) ==
  CASE name = "openLibraryByIsbn" -> Truthy(book.isbn)
    [] name = "openLibrarySearch" ->
         (IF draft THEN coverOrDescriptionUnfilled(l) ELSE anyUnfilled(l)) /\ hasText(book)
    [] name = "googleBooksByIsbn" -> anyUnfilled(l)
    [] name = "googleBooksSearch" -> anyUnfilled(l) /\ hasText(book)

\* the condition of each `if` block of enrichBook
appGuard(name, draft, l, book) ==
  CASE name = "openLibraryByIsbn" -> Truthy(book.isbn)
    [] name = "openLibrarySearch" ->
         (IF draft THEN coverOrDescriptionUnfilled(l) ELSE anyUnfilled(l)) /\ hasText(book)
    [] name = "googleBooksByIsbn" -> anyUnfilled(l) /\ Truthy(book.isbn)
    [] name = "googleBooksSearch" -> anyUnfilled(l) /\ hasText(book)

\* enrichOne: out = (await googleByIsbn(isbn)) || out
mergeGoogleByIsbn(l, g) ==
  [coverUrl |-> g.coverUrl, description |-> g.description, genre |-> g.genre,
   source |-> l.source]

\* enrichOne: body of `if (ol) {...}`
mergeBuildOpenLibrary(l, ol) ==
  [coverUrl |-> IF Truthy(l.coverUrl) THEN l.coverUrl ELSE ol.coverUrl,
   description |-> IF Truthy(l.description) THEN l.description ELSE ol.description,
   genre |-> l.genre, source |-> l.source]

\* enrichOne: body of `if (gs) {...}`
mergeGoogleSearch(l, gs) ==
  [coverUrl |-> IF Truthy(l.coverUrl) THEN l.coverUrl ELSE gs.coverUrl,
   description |-> IF Truthy(l.description) THEN l.description ELSE gs.description,
   genre |-> IF l.genre = Unknown
               THEN (IF Truthy(gs.genre) THEN gs.genre ELSE Unknown)
               ELSE l.genre,
   source |-> l.source]

\* the order of the provider calls of enrichOne
buildCascade == <<"googleByIsbn", "openLibraryByIsbn", "googleSearch">>

\* the identity enrichOne derives from the raw row
buildIdentity(book) ==
  [title |-> norm(book.title), author |-> norm(book.author), isbn |-> cleanIsbn(book.isbn)]

\* the conditions of enrichOne; the Open Library lookup sits inside `if (isbn)`
buildGuard(name, l, book) ==
  CASE name = "googleByIsbn" -> Truthy(buildIdentity(book).isbn)
    [] name = "openLibraryByIsbn" ->
         Truthy(buildIdentity(book).isbn) /\ coverOrDescriptionUnfilled(l)
    [] name = "googleSearch" -> anyUnfilled(l) /\ hasText(buildIdentity(book))

\* ------------------------------------------------------------ main state machine
isDraft == variant = "draft"

categoryLimit == IF isDraft THEN CategoryLimitDraft ELSE CategoryLimitApp

\* a loop without the delay
sleepNone(v) == 0

\* await sleep(120) in app.js, setTimeout(r, 50) in the build script
sleepMs(v) == IF v = "build" THEN 50 ELSE 120

\* days that pass between two page loads
Delays == {1, 31}

noFiller == [coverUrl |-> "", description |-> "", genre |-> ""]

\* the fetch layer at rest
fetchIdle ==
  /\ fScript = <<>>
  /\ fAttempts = 0
  /\ fResult = Null
  /\ fPc = "idle"

\* the genre classifier at rest
classifierIdle ==
  /\ cSubjects = <<>>
  /\ cGenre = Unknown
  /\ cPc = "idle"

\* the state when main starts: the input lists are drawn from lists, blocking
\* of localStorage from blockings
InitOf(lists, blockings) ==
  /\ variant \in {"app", "draft", "build"}
  /\ apiKey \in (CASE variant = "app" -> {KeyPlaceholder, KeyReal}
                   [] variant = "draft" -> {KeyPlaceholder}
                   [] variant = "build" -> {KeyEmpty, KeyReal})
  /\ \E rows \in lists :
       BOOKS = IF variant = "build" THEN buildBooks(rows) ELSE loadBooks(rows)
  /\ blocked \in (IF variant = "build" THEN {FALSE} ELSE blockings)
  /\ ENRICHED = <<>>
  /\ storage = <<>>
  /\ now = 0
  /\ loads = 1
  /\ pc = "loop"
  /\ i = 1
  /\ step = 1
  /\ locals = initialLocals
  /\ calls = <<>>
  /\ hit = FALSE
  /\ warm = FALSE
  /\ lastWrite = <<>>
  /\ filledBy = noFiller
  /\ waited = 0
  /\ fetchIdle
  /\ classifierIdle

Init == InitOf(RowLists, {FALSE})

\* ------------------------------------------------------------ enrichBook (app.js, draft)
\* a push that puts the record in front of the list
pushFront(list, e) == <<e>> \o list

\* ENRICHED.push(e)
push(list, e) == Append(list, e)

\* { ...fields, ...book }: the record's own empty fields win
spreadBookLast(book, fields) == book

\* { ...book, ...fields }
spread(book, fields) ==
  [book EXCEPT !.coverUrl = fields.coverUrl, !.description = fields.description,
               !.genre = fields.genre, !.source = fields.source]

\* main: `const e = await enrichBook(BOOKS[i])` up to the first await of
\* enrichBook: the cache lookup, and on a hit the return and ENRICHED.push(e)
EnrichBookStart ==
  /\ variant # "build" /\ pc = "loop" /\ i <= Len(BOOKS)
  /\ LET book == BOOKS[i]
         key == cacheKeyOf(book)
         cached == cacheGet(storage, CACHE_PREFIX(isDraft), key, blocked)
     IN  /\ warm' = (/\ key \in DOMAIN lastWrite /\ ~blocked
                      /\ storage[CACHE_PREFIX(isDraft) \o key] = stringify(lastWrite[key].value))
         /\ IF cached # <<>>
              THEN /\ ENRICHED' = push(ENRICHED, spread(book, cached[1]))
                   /\ hit' = TRUE
                   /\ pc' = "sleep"
              ELSE /\ ENRICHED' = ENRICHED
                   /\ hit' = FALSE
                   /\ pc' = "step"
  /\ step' = 1
  /\ locals' = initialLocals
  /\ calls' = <<>>
  /\ filledBy' = noFiller
  /\ UNCHANGED <<variant, apiKey, BOOKS, storage, blocked, now, loads, i, lastWrite>>
  /\ UNCHANGED fetchVars
  /\ UNCHANGED classifierVars
  /\ waited' = 0

\* the provider an adapter queries
providerOf(name) ==
  IF name \in {"openLibraryByIsbn", "openLibrarySearch"} THEN "OL" ELSE "GB"

\* who filled each field, after a block turned locals l into m
fillers(name, l, m) ==
  [coverUrl |-> IF ~Truthy(l.coverUrl) /\ Truthy(m.coverUrl)
                  THEN providerOf(name) ELSE filledBy.coverUrl,
   description |-> IF ~Truthy(l.description) /\ Truthy(m.description)
                     THEN providerOf(name) ELSE filledBy.description,
   genre |-> IF l.genre = Unknown /\ m.genre # Unknown
               THEN providerOf(name) ELSE filledBy.genre]

\* what follows an awaited adapter call: a thrown exception leaves enrichBook
\* and main and lands in main().catch; otherwise the block merges a non-null
\* result and control moves to the next block
afterCall(name, res, merged, last) ==
  /\ calls' = Append(calls, name)
  /\ IF res = Throw
       THEN pc' = "aborted" /\ UNCHANGED <<step, locals, filledBy>>
       ELSE /\ locals' = IF res = Null THEN locals ELSE merged
            /\ filledBy' = IF res = Null THEN filledBy ELSE fillers(name, locals, merged)
            /\ step' = step + 1
            /\ pc' = IF step = last THEN "store" ELSE "step"
  /\ UNCHANGED <<variant, apiKey, BOOKS, ENRICHED, storage, blocked, now, loads, i, hit,
                 warm, lastWrite>>
  /\ UNCHANGED fetchVars
  /\ UNCHANGED classifierVars
  /\ UNCHANGED waited

\* an `if` block whose condition is false
skipBlock(last) ==
  /\ step' = step + 1
  /\ pc' = IF step = last THEN "store" ELSE "step"
  /\ UNCHANGED <<variant, apiKey, BOOKS, ENRICHED, storage, blocked, now, loads, i, locals,
                 calls, hit, warm, lastWrite, filledBy>>
  /\ UNCHANGED fetchVars
  /\ UNCHANGED classifierVars
  /\ UNCHANGED waited

atBlock(name) ==
  /\ variant # "build" /\ pc = "step" /\ step <= Len(appCascade)
  /\ appCascade[step] = name

\* 1) Open Library by ISBN
OpenLibraryByIsbnBlock ==
  /\ atBlock("openLibraryByIsbn")
  /\ IF appGuard("openLibraryByIsbn", isDraft, locals, BOOKS[i])
       THEN \E r \in EditionFetches, wr \in WorkFetches :
              LET ol == openLibraryByIsbn(BOOKS[i].isbn, r, wr)
              IN  afterCall("openLibraryByIsbn", ol, mergeOpenLibraryByIsbn(locals, ol),
                            Len(appCascade))
       ELSE skipBlock(Len(appCascade))

\* 2) Open Library search (title/author)
OpenLibrarySearchBlock ==
  /\ atBlock("openLibrarySearch")
  /\ IF appGuard("openLibrarySearch", isDraft, locals, BOOKS[i])
       THEN \E r \in SearchFetches :
              LET ols == openLibrarySearch(r)
              IN  afterCall("openLibrarySearch", ols, mergeOpenLibrarySearch(locals, ols),
                            Len(appCascade))
       ELSE skipBlock(Len(appCascade))

\* 3) Google Books by ISBN
GoogleBooksByIsbnBlock ==
  /\ atBlock("googleBooksByIsbn")
  /\ IF appGuard("googleBooksByIsbn", isDraft, locals, BOOKS[i])
       THEN \E r \in VolumeFetches :
              LET gb == googleBooks(apiKey, isDraft, r)
              IN  afterCall("googleBooksByIsbn", gb,
                            mergeGoogleBooks(locals, gb, categoryLimit), Len(appCascade))
       ELSE skipBlock(Len(appCascade))

\* 4) Google Books search (title/author)
GoogleBooksSearchBlock ==
  /\ atBlock("googleBooksSearch")
  /\ IF appGuard("googleBooksSearch", isDraft, locals, BOOKS[i])
       THEN \E r \in VolumeFetches :
              LET gb == googleBooks(apiKey, isDraft, r)
              IN  afterCall("googleBooksSearch", gb,
                            mergeGoogleBooks(locals, gb, categoryLimit), Len(appCascade))
       ELSE skipBlock(Len(appCascade))

\* const enriched = {...}; cacheSet(cacheKey, enriched); return {...book, ...enriched};
\* and main's ENRICHED.push(e)
EnrichBookStore ==
  /\ variant # "build" /\ pc = "store"
  /\ \E quotaExceeded \in BOOLEAN :
       LET key == cacheKeyOf(BOOKS[i])
           writeThrows == blocked \/ quotaExceeded
       IN  /\ storage' = cacheSet(storage, CACHE_PREFIX(isDraft), key, locals, writeThrows)
           /\ lastWrite' =
                IF writeThrows THEN lastWrite
                ELSE [k \in DOMAIN lastWrite \cup {key} |->
                        IF k = key THEN [value |-> locals, at |-> now] ELSE lastWrite[k]]
  /\ ENRICHED' = push(ENRICHED, spread(BOOKS[i], locals))
  /\ pc' = "sleep"
  /\ UNCHANGED <<variant, apiKey, BOOKS, blocked, now, loads, i, step, locals, calls, hit,
                 warm, filledBy>>
  /\ UNCHANGED fetchVars
  /\ UNCHANGED classifierVars
  /\ UNCHANGED waited

\* ------------------------------------------------------------ enrichOne (build script)
EnrichOneStart ==
  /\ variant = "build" /\ pc = "loop" /\ i <= Len(BOOKS)
  /\ pc' = "step"
  /\ step' = 1
  /\ locals' = initialLocals
  /\ calls' = <<>>
  /\ filledBy' = noFiller
  /\ UNCHANGED <<variant, apiKey, BOOKS, ENRICHED, storage, blocked, now, loads, i, hit, warm,
                 lastWrite>>
  /\ UNCHANGED fetchVars
  /\ UNCHANGED classifierVars
  /\ waited' = 0

atCall(name) ==
  /\ variant = "build" /\ pc = "step" /\ step <= Len(buildCascade)
  /\ buildCascade[step] = name

\* 1) Google by ISBN
GoogleByIsbnCall ==
  /\ atCall("googleByIsbn")
  /\ IF buildGuard("googleByIsbn", locals, BOOKS[i])
       THEN \E r \in VolumeFetches :
              LET g == buildGoogle(apiKey, r)
              IN  afterCall("googleByIsbn", g, mergeGoogleByIsbn(locals, g), Len(buildCascade))
       ELSE skipBlock(Len(buildCascade))

\* 2) OpenLibrary by ISBN
BuildOpenLibraryCall ==
  /\ atCall("openLibraryByIsbn")
  /\ IF buildGuard("openLibraryByIsbn", locals, BOOKS[i])
       THEN \E r \in EditionFetches, wr \in WorkFetches :
              LET ol == buildOpenLibraryByIsbn(buildIdentity(BOOKS[i]).isbn, r, wr)
              IN  afterCall("openLibraryByIsbn", ol, mergeBuildOpenLibrary(locals, ol),
                            Len(buildCascade))
       ELSE skipBlock(Len(buildCascade))

\* 3) Google search by title/author
GoogleSearchCall ==
  /\ atCall("googleSearch")
  /\ IF buildGuard("googleSearch", locals, BOOKS[i])
       THEN \E r \in VolumeFetches :
              LET gs == buildGoogle(apiKey, r)
              IN  afterCall("googleSearch", gs, mergeGoogleSearch(locals, gs), Len(buildCascade))
       ELSE skipBlock(Len(buildCascade))

\* the object enrichOne returns, as main pushes it: { _id: i, ...e }
builtRecord(book, idx, l) ==
  [_id |-> idx,
   title |-> buildIdentity(book).title, author |-> buildIdentity(book).author,
   isbn |-> buildIdentity(book).isbn,
   coverUrl |-> l.coverUrl, description |-> l.description,
   genre |-> IF Truthy(l.genre) THEN l.genre ELSE Unknown]

EnrichOneReturn ==
  /\ variant = "build" /\ pc = "store"
  /\ ENRICHED' = push(ENRICHED, builtRecord(BOOKS[i], i - 1, locals))
  /\ pc' = "sleep"
  /\ UNCHANGED <<variant, apiKey, BOOKS, storage, blocked, now, loads, i, step, locals, calls,
                 hit, warm, lastWrite, filledBy>>
  /\ UNCHANGED fetchVars
  /\ UNCHANGED classifierVars
  /\ UNCHANGED waited

\* ------------------------------------------------------------ main
\* await sleep(120) / setTimeout(r, 50), then i++
Sleep ==
  /\ pc = "sleep"
  /\ i' = i + 1
  /\ pc' = "loop"
  /\ step' = 1
  /\ locals' = initialLocals
  /\ calls' = <<>>
  /\ hit' = FALSE
  /\ warm' = FALSE
  /\ filledBy' = noFiller
  /\ UNCHANGED <<variant, apiKey, BOOKS, ENRICHED, storage, blocked, now, loads, lastWrite>>
  /\ UNCHANGED fetchVars
  /\ UNCHANGED classifierVars
  /\ waited' = sleepMs(variant)

\* the loop condition fails: the final render, or the build script's writeFile
Finish ==
  /\ pc = "loop" /\ i > Len(BOOKS)
  /\ pc' = "done"
  /\ UNCHANGED <<variant, apiKey, BOOKS, ENRICHED, storage, blocked, now, loads, i, step,
                 locals, calls, hit, warm, lastWrite, filledBy>>
  /\ UNCHANGED fetchVars
  /\ UNCHANGED classifierVars
  /\ UNCHANGED waited

\* the page is opened again some days later: main runs afresh over the same
\* books.json, localStorage is what the earlier loads left
Reload ==
  /\ variant # "build" /\ pc \in {"done", "aborted"} /\ loads < MaxLoads
  /\ \E d \in Delays : now' = now + d
  /\ loads' = loads + 1
  /\ ENRICHED' = <<>>
  /\ pc' = "loop"
  /\ i' = 1
  /\ step' = 1
  /\ locals' = initialLocals
  /\ calls' = <<>>
  /\ hit' = FALSE
  /\ warm' = FALSE
  /\ filledBy' = noFiller
  /\ UNCHANGED <<variant, apiKey, BOOKS, storage, blocked, lastWrite>>
  /\ UNCHANGED fetchVars
  /\ UNCHANGED classifierVars
  /\ waited' = 0

Next ==
  \/ EnrichBookStart
  \/ OpenLibraryByIsbnBlock
  \/ OpenLibrarySearchBlock
  \/ GoogleBooksByIsbnBlock
  \/ GoogleBooksSearchBlock
  \/ EnrichBookStore
  \/ EnrichOneStart
  \/ GoogleByIsbnCall
  \/ BuildOpenLibraryCall
  \/ GoogleSearchCall
  \/ EnrichOneReturn
  \/ Sleep
  \/ Finish

\* one page load, or one run of the build script
Spec == Init /\ [][Next]_vars

\* the page is visited again: short input lists, several loads
InitRevisit == InitOf(UNION {[1..n -> Rows] : n \in 1..MaxRevisitBooks}, BOOLEAN)

NextRevisit == Next \/ Reload

SpecRevisit == InitRevisit /\ [][NextRevisit]_vars

\* stored strings that are not the JSON of an enrichment: a truncated one, an
\* empty one
CorruptStrings == {<<"{">>, <<>>}

\* between two page loads something else that shares localStorage (another
\* script of the origin, the user, a cut-off write) leaves a stored entry corrupt
Damage ==
  /\ variant # "build" /\ pc \in {"done", "aborted"} /\ loads < MaxLoads
  /\ \E k \in DOMAIN storage, c \in CorruptStrings :
       /\ storage[k] \notin CorruptStrings
       /\ storage' = [storage EXCEPT ![k] = c]
  /\ UNCHANGED <<variant, apiKey, BOOKS, ENRICHED, blocked, now, loads, pc, i, step, locals,
                 calls, hit, warm, lastWrite, filledBy>>
  /\ UNCHANGED fetchVars
  /\ UNCHANGED classifierVars
  /\ UNCHANGED waited

NextDamage == NextRevisit \/ Damage

\* several page loads with stored entries that may get corrupt in between
SpecDamage == InitRevisit /\ [][NextDamage]_vars

\* one page load over a list of two related rows
InitPairs == InitOf(PairLists, {FALSE})

SpecPairs == InitPairs /\ [][Next]_vars

\* ------------------------------------------------------------ one call of the classifier
\* subject tags as the providers send them
TagCrimeFiction == <<"C","r","i","m","e"," ","F","i","c","t","i","o","n">>
TagScienceFiction == <<"S","c","i","e","n","c","e"," ","F","i","c","t","i","o","n">>
TagMagic == <<"M","a","g","i","c">>
TagLoveStories == <<"L","o","v","e"," ","s","t","o","r","i","e","s">>
TagHistoricalNovel == <<"H","i","s","t","o","r","i","c","a","l"," ","n","o","v","e","l">>
TagNonFiction == <<"N","o","n","-","F","i","c","t","i","o","n">>
TagNovel == <<"N","o","v","e","l">>
TagCooking == <<"C","o","o","k","i","n","g">>
TagJuvenile == <<"J","u","v","e","n","i","l","e"," ","l","i","t","e","r","a","t","u","r","e">>

SubjectTags ==
  {TagCrimeFiction, TagScienceFiction, TagMagic, TagLoveStories, TagHistoricalNovel,
   TagNonFiction, TagNovel, TagCooking, TagJuvenile}

SubjectLists == UNION {[1..n -> SubjectTags] : n \in 0..MaxSubjects}

\* an enrichment is about to classify the subjects a provider returned
InitGenre ==
  /\ variant = "app"
  /\ apiKey = KeyPlaceholder
  /\ BOOKS = loadBooks(<<RowDune>>)
  /\ ENRICHED = <<>>
  /\ storage = <<>>
  /\ blocked = FALSE
  /\ now = 0
  /\ loads = 1
  /\ pc = "step"
  /\ i = 1
  /\ step = 1
  /\ locals = initialLocals
  /\ calls = <<>>
  /\ hit = FALSE
  /\ warm = FALSE
  /\ lastWrite = <<>>
  /\ filledBy = noFiller
  /\ waited = 0
  /\ fetchIdle
  /\ cSubjects \in SubjectLists
  /\ cGenre = Unknown
  /\ cPc = "idle"

\* bestGenreFromSubjects(subjects) is called and returns
BestGenreFromSubjects ==
  /\ cPc = "idle"
  /\ cGenre' = bestGenreFromSubjects(cSubjects)
  /\ cPc' = "returned"
  /\ UNCHANGED cSubjects
  /\ UNCHANGED mainVars
  /\ UNCHANGED fetchVars

NextGenre == BestGenreFromSubjects

SpecGenre == InitGenre /\ [][NextGenre]_vars

\* ------------------------------------------------------------ the fetch of one url
\* every outcome of one request
FetchOutcomes == Fetches({JsonNull})

\* a fetch that asks again after 429 or 5xx, up to 4 more times
shouldRetryTransient(r, attempt) ==
  /\ r.kind = "response"
  /\ r.status = 429 \/ (r.status >= 500 /\ r.status <= 599)
  /\ attempt < 4 + 1

\* whether fetchJson issues another request after response r to its attempt-th
\* request: its body holds one `await fetch(url)` and no loop
shouldRetry(r, attempt) == FALSE

\* an adapter of the running enrichment is entered and calls fetchJson(url)
InitFetch ==
  /\ variant = "build"
  /\ apiKey = KeyReal
  /\ BOOKS = buildBooks(<<RowDune>>)
  /\ ENRICHED = <<>>
  /\ storage = <<>>
  /\ blocked = FALSE
  /\ now = 0
  /\ loads = 1
  /\ pc = "step"
  /\ i = 1
  /\ step = 1
  /\ locals = initialLocals
  /\ calls = <<>>
  /\ hit = FALSE
  /\ warm = FALSE
  /\ lastWrite = <<>>
  /\ filledBy = noFiller
  /\ waited = 0
  /\ fScript \in [1..FetchScriptLen -> FetchOutcomes]
  /\ fAttempts = 0
  /\ fResult = Null
  /\ fPc = "idle"
  /\ classifierIdle

\* fetchJson(url) is called
FetchCall ==
  /\ fPc = "idle" /\ Len(fScript) > 0
  /\ fPc' = "fetching"
  /\ UNCHANGED <<fScript, fAttempts, fResult>>
  /\ UNCHANGED mainVars
  /\ UNCHANGED classifierVars

\* const r = await fetch(url); if (!r.ok) return null; return await r.json();
FetchJson ==
  /\ fPc = "fetching" /\ fAttempts < Len(fScript)
  /\ fAttempts' = fAttempts + 1
  /\ LET r == fScript[fAttempts + 1]
     IN  IF shouldRetry(r, fAttempts + 1)
           THEN UNCHANGED <<fResult, fPc>>
           ELSE fResult' = fetchJson(r) /\ fPc' = "returned"
  /\ UNCHANGED fScript
  /\ UNCHANGED mainVars
  /\ UNCHANGED classifierVars

NextFetch == FetchCall \/ FetchJson

SpecFetch == InitFetch /\ [][NextFetch]_vars

C2_GenreUpgradeOnly ==
  [][((pc \in {"step", "store"}) /\ locals.genre # Unknown) =>
       /\ locals'.genre = locals.genre
       /\ pc' = "sleep" => ENRICHED'[Len(ENRICHED')].genre = locals.genre
  ]_vars

\* an enrichment whose genre came from Open Library subjects and into which a
\* later Google Books block merged its own result
C2_GenreKeptThroughGoogle ==
  /\ variant = "app" /\ pc = "store"
  /\ filledBy.genre = "OL" /\ locals.genre # Unknown
  /\ filledBy.description = "GB"

\* C3: no error of one record's provider calls aborts the pipeline: main never
\* ends in its catch handler, and when the loop is over every record of the
\* input has a result.
C3_PipelineCompletes ==
  /\ pc # "aborted"
  /\ pc = "done" => Len(ENRICHED) = Len(BOOKS)

\* C4: the adapters never propagate an exception to the orchestrator: every
\* adapter call returns to enrichBook/enrichOne, which goes on to its next
\* block or to its return.
C4_AdaptersAlwaysReturn ==
  [][pc = "step" /\ calls' # calls => pc' \in {"step", "store"}]_vars

\* C5 as stated: a fetch whose every response is 503 returns absence after
\* exactly 4 + 1 requests.
C5_RetriesUpToCeiling ==
  (fPc = "returned" /\ \A k \in 1..Len(fScript) : fScript[k] = Response(503, BadBody))
    => fAttempts = 4 + 1 /\ fResult = Null

\* C5: a fetch issues exactly one request whatever the response; a non-2xx
\* response (429 and 5xx included) is not retried and yields null at once.
C5_SingleAttempt ==
  fPc = "returned" =>
    /\ fAttempts = 1
    /\ (fScript[1].kind = "response" /\ ~ok(fScript[1])) => fResult = Null

\* a fetch of a url that only ever answers 503 has returned
C5_AllUnavailableReturned ==
  /\ fPc = "returned"
  /\ \A k \in 1..Len(fScript) : fScript[k] = Response(503, BadBody)
  /\ fResult = Null

\* C6 as stated: with provider A the one of the first block, the provider-B
\* identifier lookup comes before the provider-A text search whenever an
\* enrichment invokes both.
C6_IdentifierLookupsBeforeSearches ==
  LET lookupB == IF variant = "build" THEN "openLibraryByIsbn" ELSE "googleBooksByIsbn"
      searchA == IF variant = "build" THEN "googleSearch" ELSE "openLibrarySearch"
  IN  \A a, b \in 1..Len(calls) :
        (calls[a] = searchA /\ calls[b] = lookupB) => b < a

\* C6: the adapters are invoked in the order of the code: enrichBook asks Open
\* Library by ISBN, Open Library search, Google Books by ISBN, Google Books
\* search; enrichOne asks Google by ISBN, Open Library by ISBN, Google search;
\* no enrichment invokes them in any other relative order.
C6_OrderOfTheCode ==
  LET order == IF variant = "build"
                 THEN <<"googleByIsbn", "openLibraryByIsbn", "googleSearch">>
                 ELSE <<"openLibraryByIsbn", "openLibrarySearch",
                        "googleBooksByIsbn", "googleBooksSearch">>
      pos(n) == CHOOSE k \in 1..Len(order) : order[k] = n
  IN  /\ \A a \in 1..Len(calls) : \E k \in 1..Len(order) : order[k] = calls[a]
      /\ \A a, b \in 1..Len(calls) : a < b => pos(calls[a]) < pos(calls[b])

\* enrichBook has invoked all four adapters for a record
C6_AllFourInvoked ==
  /\ variant = "app" /\ pc = "store"
  /\ calls = <<"openLibraryByIsbn", "openLibrarySearch",
               "googleBooksByIsbn", "googleBooksSearch">>

\* C7: a block after the first invokes its adapter if and only if its input is
\* available (ISBN for an identifier lookup, title or author for a search) and
\* at least one of cover, description, genre is still unfilled.
C7_InvokedIffAnyUnfilled ==
  [][(pc = "step" /\ step > 1) =>
       LET name == IF variant = "build" THEN buildCascade[step] ELSE appCascade[step]
           book == IF variant = "build" THEN buildIdentity(BOOKS[i]) ELSE BOOKS[i]
           available == IF name \in {"openLibraryByIsbn", "googleBooksByIsbn"}
                          THEN Len(book.isbn) > 0
                          ELSE Len(book.title) > 0 \/ Len(book.author) > 0
           unfilled == \/ Len(locals.coverUrl) = 0
                       \/ Len(locals.description) = 0
                       \/ locals.genre = Unknown
       IN  (calls' # calls) <=> (available /\ unfilled)
  ]_vars

\* C8: when some block filled the cover or the description, the source tag
\* names a provider whose block filled one of the two.
C8_SourceNamesFiller ==
  (variant # "build" /\ pc = "store"
     /\ (filledBy.coverUrl # "" \/ filledBy.description # ""))
    => \/ locals.source = SourceOL /\ "OL" \in {filledBy.coverUrl, filledBy.description}
       \/ locals.source = SourceGB /\ "GB" \in {filledBy.coverUrl, filledBy.description}

\* C9: warm-cache idempotence: when an enrichment starts for a record whose
\* entry was written before and is readable, it returns at once, invokes no
\* adapter, and the record it returns carries the coverUrl, description, genre
\* and source that were written.
C9_WarmCacheIdempotent ==
  warm =>
    /\ pc = "sleep" /\ hit /\ calls = <<>>
    /\ LET e == ENRICHED[Len(ENRICHED)]
           first == lastWrite[cacheKeyOf(BOOKS[i])].value
       IN  /\ e.coverUrl = first.coverUrl
           /\ e.description = first.description
           /\ e.genre = first.genre
           /\ e.source = first.source

\* the page is loaded a second time and the record's stored enrichment, which
\* has a cover, is returned
C9_SecondLoadServed ==
  /\ warm /\ hit /\ loads = 2
  /\ Len(ENRICHED[Len(ENRICHED)].coverUrl) > 0

\* C10 as stated: an entry older than 30 days is never returned as a hit.
C10_ExpiredEntryMisses ==
  hit => now - lastWrite[cacheKeyOf(BOOKS[i])].at <= 30

\* C10: the cache has no retention window: an entry written more than 30 days
\* ago is still returned as a hit, no adapter is invoked and the entry is not
\* rewritten.
C10_OldEntryStillServed ==
  (warm /\ now - lastWrite[cacheKeyOf(BOOKS[i])].at > 30) =>
    /\ hit /\ calls = <<>> /\ pc = "sleep"
    /\ storage[CACHE_PREFIX(isDraft) \o cacheKeyOf(BOOKS[i])]
         = stringify(lastWrite[cacheKeyOf(BOOKS[i])].value)

\* an entry written 31 days before is returned
C10_HitAfterThirtyOneDays ==
  hit /\ now - lastWrite[cacheKeyOf(BOOKS[i])].at = 31

\* C11: the output keeps the input order: at every moment the k-th record of
\* ENRICHED is the enrichment of the k-th record of BOOKS, so no record is
\* there twice or out of place, and when the loop is over every record of
\* BOOKS has its result.
C11_OutputFollowsInput ==
  /\ Len(ENRICHED) <= Len(BOOKS)
  /\ \A k \in 1..Len(ENRICHED) :
       IF variant = "build"
         THEN /\ ENRICHED[k]._id = k - 1
              /\ ENRICHED[k].title = norm(BOOKS[k].title)
              /\ ENRICHED[k].isbn = cleanIsbn(BOOKS[k].isbn)
         ELSE /\ ENRICHED[k]._id = BOOKS[k]._id
              /\ ENRICHED[k].title = BOOKS[k].title
              /\ ENRICHED[k].isbn = BOOKS[k].isbn
  /\ \A j, k \in 1..Len(ENRICHED) : j < k => ENRICHED[j]._id < ENRICHED[k]._id
  /\ pc = "done" => Len(ENRICHED) = Len(BOOKS)

\* the loop is over for a list of two different records
C11_TwoRecordsDone ==
  /\ pc = "done" /\ Len(ENRICHED) = 2
  /\ ENRICHED[1].isbn # ENRICHED[2].isbn

C13_GenreNeverEmpty ==
  /\ pc \in {"step", "store"} => Len(locals.genre) > 0
  /\ (pc = "store" /\ filledBy.genre = "") => locals.genre = Unknown
  /\ \A k \in 1..Len(ENRICHED) : Len(ENRICHED[k].genre) > 0
  /\ \A k \in DOMAIN storage : IsJson(storage[k]) => Len(parse(storage[k]).genre) > 0

\* Google Books answered the last block of a full cascade and still no
\* provider gave a usable category or subject
C13_AnsweredWithoutGenre ==
  /\ variant = "app" /\ pc = "store" /\ Len(calls) = 4
  /\ locals.source = SourceGB /\ filledBy.description = "GB"
  /\ locals.genre = Unknown

\* C14: for a record whose ISBN is empty no by-ISBN adapter is invoked, and
\* when it has a title or an author the first adapter invoked is a text search.
C14_NoLookupWithoutIsbn ==
  LET isbn == IF variant = "build" THEN cleanIsbn(BOOKS[i].isbn) ELSE BOOKS[i].isbn
      book == IF variant = "build" THEN buildIdentity(BOOKS[i]) ELSE BOOKS[i]
      lookups == {"openLibraryByIsbn", "googleBooksByIsbn", "googleByIsbn"}
      searches == {"openLibrarySearch", "googleBooksSearch", "googleSearch"}
  IN  (pc \in {"step", "store", "aborted"} /\ Len(isbn) = 0) =>
        /\ \A k \in 1..Len(calls) : calls[k] \notin lookups
        /\ calls # <<>> => calls[1] \in searches
        /\ (pc = "store" /\ (Len(book.title) > 0 \/ Len(book.author) > 0)) => calls # <<>>

\* a record without ISBN went through both text searches
C14_SearchesOnly ==
  /\ variant = "app" /\ pc = "store" /\ Len(BOOKS[i].isbn) = 0
  /\ calls = <<"openLibrarySearch", "googleBooksSearch">>

\* C15: a record whose title, author and ISBN are all empty is dropped before
\* enrichment: it is never the record the orchestrator works on and never
\* appears in the output.
C15_EmptyRecordsDropped ==
  /\ pc \in {"step", "store"} =>
       LET book == IF variant = "build" THEN buildIdentity(BOOKS[i]) ELSE BOOKS[i]
       IN  Len(book.title) > 0 \/ Len(book.author) > 0 \/ Len(book.isbn) > 0
  /\ \A k \in 1..Len(ENRICHED) :
       \/ Len(ENRICHED[k].title) > 0
       \/ Len(ENRICHED[k].author) > 0
       \/ Len(ENRICHED[k].isbn) > 0

\* C16: a stored entry that is corrupt, like a storage that refuses the read,
\* is a miss: enrichBook does not return or fail at the lookup but enters the
\* cascade; at its end cacheSet either replaces the entry by the new
\* enrichment or (the write refused) leaves storage alone, and enrichBook
\* returns either way.
C16_CorruptEntryIsMiss ==
  [][(variant # "build") =>
       LET K == CACHE_PREFIX(isDraft) \o cacheKeyOf(BOOKS[i])
       IN  /\ (/\ pc = "loop" /\ i <= Len(BOOKS)
               /\ (blocked \/ K \notin DOMAIN storage \/ ~IsJson(storage[K]))
               /\ pc' # pc)
                => (pc' = "step" /\ ~hit' /\ ENRICHED' = ENRICHED)
           /\ (pc = "store" /\ pc' # pc) =>
                /\ pc' = "sleep"
                /\ storage' = storage \/ storage'[K] = stringify(locals)
                /\ blocked => storage' = storage
  ]_vars

\* on a later page load the cascade runs for a record whose stored entry is
\* a truncated string
C16_CascadeOverCorruptEntry ==
  /\ loads = 2 /\ pc = "step" /\ calls # <<>>
  /\ (CACHE_PREFIX(isDraft) \o cacheKeyOf(BOOKS[i])) \in DOMAIN storage
  /\ storage[CACHE_PREFIX(isDraft) \o cacheKeyOf(BOOKS[i])] = <<"{">>

\* C17: bestGenreFromSubjects returns the label of the first rule, in the order
\* Mystery / Thriller, Science Fiction, Fantasy, Romance, Biography, History,
\* Religion, Kids / YA, Self-Help, Business, Nonfiction, Fiction, that has a
\* keyword contained in some lowercased subject, "Unknown" when there is none,
\* and the same label for the subjects in reverse order.
C17_FirstRuleInOrderWins ==
  cPc = "returned" =>
    LET labels ==
          <<<<"M","y","s","t","e","r","y"," ","/"," ","T","h","r","i","l","l","e","r">>,
            <<"S","c","i","e","n","c","e"," ","F","i","c","t","i","o","n">>,
            <<"F","a","n","t","a","s","y">>,
            <<"R","o","m","a","n","c","e">>,
            <<"B","i","o","g","r","a","p","h","y">>,
            <<"H","i","s","t","o","r","y">>,
            <<"R","e","l","i","g","i","o","n">>,
            <<"K","i","d","s"," ","/"," ","Y","A">>,
            <<"S","e","l","f","-","H","e","l","p">>,
            <<"B","u","s","i","n","e","s","s">>,
            <<"N","o","n","f","i","c","t","i","o","n">>,
            <<"F","i","c","t","i","o","n">>>>
        lowered == {toLowerCase(cSubjects[k]) : k \in 1..Len(cSubjects)}
        matched == {r \in 1..12 :
                      \E v \in lowered : \E k \in 1..Len(rules[r][2]) :
                        includes(v, rules[r][2][k])}
        reversed == [k \in 1..Len(cSubjects) |-> cSubjects[Len(cSubjects) + 1 - k]]
    IN  /\ Len(rules) = 12
        /\ \A r \in 1..12 : rules[r][1] = labels[r]
        /\ matched = {} => cGenre = Unknown
        /\ matched # {} =>
             \E r \in matched : cGenre = labels[r] /\ \A q \in matched : r <= q
        /\ bestGenreFromSubjects(reversed) = cGenre

\* a generic tag ahead of a specific one: "Novel" matches only Fiction, "Magic"
\* matches Fantasy, and Fantasy is returned
C17_SpecificBeatsGeneric ==
  /\ cPc = "returned"
  /\ cSubjects = <<TagNovel, TagMagic>>
  /\ cGenre = <<"F","a","n","t","a","s","y">>

\* C18: the politeness delay: a record pushed to the output is always
\* followed by the sleep, also when it came from the cache; the loop index
\* only advances by that sleep; and an enrichment of a record after the first
\* begins only when the full delay (120 ms, 50 ms in the build script) has
\* been slept since the previous one began, so enrichments never overlap.
C18_DelayBetweenRecords ==
  [][/\ (Len(ENRICHED') > Len(ENRICHED)) => (pc' = "sleep")
     /\ (i' # i) => (pc = "sleep" /\ i' = i + 1 /\ pc' = "loop")
     /\ (pc = "loop" /\ pc' \in {"step", "sleep"} /\ i > 1) =>
          (waited = (IF variant = "build" THEN 50 ELSE 120))
     /\ (pc \in {"step", "store"}) => (i' = i /\ pc' # "loop")
  ]_vars

\* the second record was served from the cache entry the first one wrote and
\* was pushed; main is in the delay that follows it
C18_SleepingAfterCacheHit ==
  /\ variant = "app" /\ pc = "sleep" /\ hit
  /\ i = 2 /\ Len(BOOKS) = 2 /\ Len(ENRICHED) = 2

\* C19: an enrichment that missed the cache ends only through its one cacheSet
\* after the last block, and when it ends the store holds, under the record's
\* own key, exactly the {coverUrl, description, genre, source} it returns.
C19_MissWritesOnce ==
  [][(variant # "build" /\ ~hit /\ pc \in {"step", "store"} /\ pc' \notin {"step", "store"}) =>
       /\ pc = "store" /\ pc' = "sleep"
       /\ (CACHE_PREFIX(isDraft) \o cacheKeyOf(BOOKS[i])) \in DOMAIN storage'
       /\ storage'[CACHE_PREFIX(isDraft) \o cacheKeyOf(BOOKS[i])] = stringify(locals')
  ]_vars

\* C20: every record enrichBook has returned carries the _id, title, author
\* and isbn of the input record at the same position, whether it was served
\* from the cache or enriched, and the input list is never modified; when the
\* second of two records with the same cleaned ISBN is served from the cache,
\* it carries the coverUrl, description, genre and source the first one
\* produced and wrote to the cache.
C20_IdentityFieldsKept ==
  /\ [](variant # "build" =>
          /\ \A k \in 1..Len(ENRICHED) :
               /\ ENRICHED[k]._id = BOOKS[k]._id
               /\ ENRICHED[k].title = BOOKS[k].title
               /\ ENRICHED[k].author = BOOKS[k].author
               /\ ENRICHED[k].isbn = BOOKS[k].isbn
          /\ (/\ Len(ENRICHED) = 2 /\ i = 2 /\ pc = "sleep" /\ hit
              /\ Truthy(BOOKS[1].isbn) /\ BOOKS[1].isbn = BOOKS[2].isbn) =>
               /\ cacheKeyOf(BOOKS[1]) \in DOMAIN lastWrite
               /\ LET first == lastWrite[cacheKeyOf(BOOKS[1])].value
                  IN  \A e \in {ENRICHED[1], ENRICHED[2]} :
                        /\ e.coverUrl = first.coverUrl
                        /\ e.description = first.description
                        /\ e.genre = first.genre
                        /\ e.source = first.source)
  /\ [][variant # "build" => BOOKS' = BOOKS]_vars

\* "Emma" entered with the ISBN of "Dune" was served from the entry Dune
\* wrote: it has Dune's cover and its own title
C20_SecondServedFromFirst ==
  /\ variant = "app" /\ Len(ENRICHED) = 2 /\ i = 2 /\ pc = "sleep" /\ hit
  /\ Truthy(BOOKS[1].isbn) /\ BOOKS[1].isbn = BOOKS[2].isbn
  /\ BOOKS[1].title # BOOKS[2].title
  /\ ENRICHED[2].title = BOOKS[2].title
  /\ Truthy(ENRICHED[1].coverUrl)
  /\ ENRICHED[2].coverUrl = ENRICHED[1].coverUrl

====
